---- MODULE Spec2Model ----
(***************************************************************************)
(* A model of the BPE tokenizer of src/tokenizer-bpe.js.                   *)
(*                                                                         *)
(* A JavaScript string is a sequence of one-character strings, a Map is    *)
(* the sequence of its <<key, value>> entries in insertion order, a Set    *)
(* the sequence of its members in insertion order.  The word-start marker  *)
(* U+2581 is written "_".                                                  *)
(***************************************************************************)
EXTENDS Integers, Sequences, FiniteSets, TLC

VARIABLES
  lower,          \* this.lower
  specialTokens,  \* this.specialTokens
  tokenToId,      \* this.tokenToId   (Map token -> id)
  idToToken,      \* this.idToToken   (Map id -> token)
  nextId,         \* this.nextId
  merges,         \* this.merges      (list of [a, b])
  counts,         \* this.counts      (Map "p1 p2 ..." -> frequency)
  pc,             \* position of the running method
  minFrequency,   \* trainFromText: option minFrequency
  mergeOps,       \* trainFromText: option mergeOps
  iter,           \* trainFromText: loop counter
  pairCounts,     \* trainFromText: local pairCounts of the current iteration
  bestPair,       \* trainFromText: local bestPair
  bestCount,      \* trainFromText: local bestCount
  corpus,         \* the distinct words of the normalized training text
  word,           \* the word (or text) the running method was called with
  pieces,         \* _applyBPEToWord: local pieces; also the last result
  disk,           \* the artifact file written by save
  saved,          \* the tokenizer as it was when it wrote the artifact
  ids,            \* the last result of encode
  out,            \* the last result of decode
  call            \* the last call of encode or decode, with its options

vars == <<lower, specialTokens, tokenToId, idToToken, nextId, merges, counts,
          pc, minFrequency, mergeOps, iter, pairCounts, bestPair, bestCount,
          corpus, word, pieces, disk, saved, ids, out, call>>

(***************************************************************************)
(* Bounds of the checked instances.                                        *)
(***************************************************************************)
MaxTextLen == 9
MaxMinFrequency == 2
MaxMergeOps == 2
MaxRules == 3
MaxWordLen == 4
MaxVocabTextLen == 3
MaxQueryLen == 2
MaxArtifactEntries == 2
MaxQueryId == 7

(***************************************************************************)
(* JavaScript values that an id can be.                                    *)
(***************************************************************************)
Num(n) == [t |-> "num", v |-> n]
NaN == [t |-> "nan", v |-> 0]
NegInfinity == [t |-> "ninf", v |-> 0]
Undefined == [t |-> "undefined", v |-> 0]

(***************************************************************************)
(* Strings.                                                                *)
(***************************************************************************)
Marker == "_"
Space == " "
Null == <<>>

RECURSIVE Concat(_)
Concat(ps) == IF ps = <<>> THEN <<>> ELSE Head(ps) \o Concat(Tail(ps))

StartsWithMarker(p) == Len(p) > 0 /\ p[1] = Marker

\* Array.prototype.join(' ')
RECURSIVE JoinSp(_)
JoinSp(ps) ==
  IF ps = <<>> THEN <<>>
  ELSE IF Len(ps) = 1 THEN ps[1]
  ELSE ps[1] \o <<Space>> \o JoinSp(Tail(ps))

\* String.prototype.split(' '): one more element than there are spaces.
RECURSIVE SplitSpFrom(_, _)
SplitSpFrom(s, cur) ==
  IF s = <<>> THEN <<cur>>
  ELSE IF Head(s) = Space THEN <<cur>> \o SplitSpFrom(Tail(s), <<>>)
  ELSE SplitSpFrom(Tail(s), Append(cur, Head(s)))

SplitSp(s) == SplitSpFrom(s, <<>>)

(***************************************************************************)
(* Maps and Sets in insertion order.                                       *)
(***************************************************************************)
MapHas(m, k) == \E i \in 1..Len(m) : m[i][1] = k

MapIndex(m, k) == CHOOSE i \in 1..Len(m) : m[i][1] = k

MapGet(m, k) == m[MapIndex(m, k)][2]

\* Map.prototype.set: an existing key keeps its place.
MapSet(m, k, v) ==
  IF MapHas(m, k) THEN [m EXCEPT ![MapIndex(m, k)] = <<k, v>>]
  ELSE Append(m, <<k, v>>)

\* m.set(k, (m.get(k) || 0) + n)
MapAdd(m, k, n) == MapSet(m, k, (IF MapHas(m, k) THEN MapGet(m, k) ELSE 0) + n)

SetAdd(s, x) == IF \E i \in 1..Len(s) : s[i] = x THEN s ELSE Append(s, x)

RECURSIVE SetAddAll(_, _)
SetAddAll(s, xs) ==
  IF xs = <<>> THEN s ELSE SetAddAll(SetAdd(s, Head(xs)), Tail(xs))

(***************************************************************************)
(* Normalization and splitting of text.                                    *)
(***************************************************************************)
Whitespace == {" ", "\n", "\r", "\t"}

\* toLowerCase on the letters of the model; NFC changes none of them.
LowerChar(c) == IF c = "A" THEN "a" ELSE IF c = "B" THEN "b" ELSE c

Normalize(s, low) == IF low THEN [i \in 1..Len(s) |-> LowerChar(s[i])] ELSE s

\* String(text).split(/\r?\n/)
RECURSIVE SplitLinesFrom(_, _)
SplitLinesFrom(s, cur) ==
  IF s = <<>> THEN <<cur>>
  ELSE IF Head(s) = "\n" THEN <<cur>> \o SplitLinesFrom(Tail(s), <<>>)
  ELSE IF Head(s) = "\r" /\ Len(s) > 1 /\ s[2] = "\n"
       THEN <<cur>> \o SplitLinesFrom(Tail(Tail(s)), <<>>)
  ELSE SplitLinesFrom(Tail(s), Append(cur, Head(s)))

SplitLines(s) == SplitLinesFrom(s, <<>>)

\* line.split(/\s+/).filter(Boolean)
RECURSIVE SplitWordsFrom(_, _)
SplitWordsFrom(s, cur) ==
  IF s = <<>> THEN (IF cur = <<>> THEN <<>> ELSE <<cur>>)
  ELSE IF Head(s) \in Whitespace
       THEN (IF cur = <<>> THEN <<>> ELSE <<cur>>) \o SplitWordsFrom(Tail(s), <<>>)
  ELSE SplitWordsFrom(Tail(s), Append(cur, Head(s)))

SplitWords(s) == SplitWordsFrom(s, <<>>)

\* src.split(/(\s+)/): words and whitespace runs alternate, starting and ending
\* with a (possibly empty) word.
RECURSIVE SplitKeepFrom(_, _, _)
SplitKeepFrom(s, cur, inSpace) ==
  IF s = <<>> THEN (IF inSpace THEN <<cur, <<>>>> ELSE <<cur>>)
  ELSE IF (Head(s) \in Whitespace) = inSpace
       THEN SplitKeepFrom(Tail(s), Append(cur, Head(s)), inSpace)
  ELSE <<cur>> \o SplitKeepFrom(Tail(s), <<Head(s)>>, ~inSpace)

SplitKeep(s) == SplitKeepFrom(s, <<>>, FALSE)

\* /^\s+$/.test(w)
IsWhitespaceRun(w) == Len(w) > 0 /\ \A i \in 1..Len(w) : w[i] \in Whitespace

(***************************************************************************)
(* _wordToChars and _initSpecials.                                         *)
(***************************************************************************)
WordToChars(w) ==
  IF Len(w) = 0 THEN <<>>
  ELSE <<<<Marker, w[1]>>>> \o [i \in 1..(Len(w) - 1) |-> <<w[i + 1]>>]

RECURSIVE InitSpecialsFrom(_, _, _)
InitSpecialsFrom(sts, idx, maps) ==
  IF sts = <<>> THEN [t2i |-> maps.t2i, i2t |-> maps.i2t, next |-> Num(idx)]
  ELSE InitSpecialsFrom(Tail(sts), idx + 1,
         [t2i |-> MapSet(maps.t2i, Head(sts), Num(idx)),
          i2t |-> MapSet(maps.i2t, Num(idx), Head(sts))])

InitSpecials(sts) == InitSpecialsFrom(sts, 0, [t2i |-> <<>>, i2t |-> <<>>])

(***************************************************************************)
(* trainFromText.                                                          *)
(***************************************************************************)
\* lines 79-88: the frequency of each word's initial piece sequence
RECURSIVE CountWords(_, _)
CountWords(ws, cnts) ==
  IF ws = <<>> THEN cnts
  ELSE CountWords(Tail(ws), MapAdd(cnts, JoinSp(WordToChars(Head(ws))), 1))

RECURSIVE CountLines(_, _, _)
CountLines(ls, low, cnts) ==
  IF ls = <<>> THEN cnts
  ELSE CountLines(Tail(ls), low,
                  CountWords(SplitWords(Normalize(Head(ls), low)), cnts))

InitialCounts(text, low) == CountLines(SplitLines(text), low, <<>>)

\* lines 100-103: the pairs of one piece sequence
RECURSIVE AddPairs(_, _, _, _)
AddPairs(ps, i, cnt, pcs) ==
  IF i > Len(ps) - 1 THEN pcs
  ELSE AddPairs(ps, i + 1, cnt, MapAdd(pcs, ps[i] \o <<Space>> \o ps[i + 1], cnt))

\* lines 95-104
RECURSIVE BuildPairCounts(_, _, _)
BuildPairCounts(cnts, minF, pcs) ==
  IF cnts = <<>> THEN pcs
  ELSE IF Head(cnts)[2] < minF THEN BuildPairCounts(Tail(cnts), minF, pcs)
  ELSE BuildPairCounts(Tail(cnts), minF,
                       AddPairs(SplitSp(Head(cnts)[1]), 1, Head(cnts)[2], pcs))

\* Mutant: `c >= bestCount`, the last pair of maximal count wins.
RECURSIVE FindBestLastWins(_, _, _)
FindBestLastWins(pcs, bp, bc) ==
  IF pcs = <<>> THEN <<bp, bc>>
  ELSE IF Head(pcs)[2] >= bc
       THEN FindBestLastWins(Tail(pcs), Head(pcs)[1], Head(pcs)[2])
  ELSE FindBestLastWins(Tail(pcs), bp, bc)

\* lines 109-116
RECURSIVE FindBest(_, _, _)
FindBest(pcs, bp, bc) ==
  IF pcs = <<>> THEN <<bp, bc>>
  ELSE IF Head(pcs)[2] > bc THEN FindBest(Tail(pcs), Head(pcs)[1], Head(pcs)[2])
  ELSE FindBest(Tail(pcs), bp, bc)

\* Mutant: only the first occurrence of the pair is merged.
MergePiecesFirstOnly(ps, i, a, b) ==
  IF \E k \in 1..(Len(ps) - 1) : ps[k] = a /\ ps[k + 1] = b
  THEN LET k == CHOOSE k \in 1..(Len(ps) - 1) :
                  /\ ps[k] = a /\ ps[k + 1] = b
                  /\ \A j \in 1..(k - 1) : ~(ps[j] = a /\ ps[j + 1] = b)
       IN SubSeq(ps, 1, k - 1) \o <<a \o b>> \o SubSeq(ps, k + 2, Len(ps))
  ELSE ps

\* lines 128-138
RECURSIVE MergePieces(_, _, _, _)
MergePieces(ps, i, a, b) ==
  IF i > Len(ps) THEN <<>>
  ELSE IF i < Len(ps) /\ ps[i] = a /\ ps[i + 1] = b
       THEN <<a \o b>> \o MergePieces(ps, i + 2, a, b)
  ELSE <<ps[i]>> \o MergePieces(ps, i + 1, a, b)

\* lines 125-141
RECURSIVE ApplyMerge(_, _, _, _)
ApplyMerge(cnts, a, b, new) ==
  IF cnts = <<>> THEN new
  ELSE ApplyMerge(Tail(cnts), a, b,
         MapAdd(new, JoinSp(MergePieces(SplitSp(Head(cnts)[1]), 1, a, b)),
                Head(cnts)[2]))

\* lines 95-118: the table, the best pair, and whether the loop breaks (line 106,
\* where bestPair is not yet declared, or line 118)
Selection(cnts, minF) ==
  LET pcs == BuildPairCounts(cnts, minF, <<>>)
      best == FindBest(pcs, Null, 0)
  IN [pairCounts |-> pcs,
      bestPair |-> IF Len(pcs) = 0 THEN Null ELSE best[1],
      bestCount |-> IF Len(pcs) = 0 THEN 0 ELSE best[2],
      stop |-> Len(pcs) = 0 \/ best[1] = Null \/ best[2] < minF]

\* lines 151-154
RECURSIVE CollectTokens(_, _)
CollectTokens(cnts, set) ==
  IF cnts = <<>> THEN set
  ELSE CollectTokens(Tail(cnts), SetAddAll(set, SplitSp(Head(cnts)[1])))

\* lines 157-163
RECURSIVE AssignIds(_, _)
AssignIds(toks, v) ==
  IF toks = <<>> THEN v
  ELSE IF MapHas(v.t2i, Head(toks)) THEN AssignIds(Tail(toks), v)
  ELSE AssignIds(Tail(toks),
         [t2i |-> MapSet(v.t2i, Head(toks), v.next),
          i2t |-> MapSet(v.i2t, v.next, Head(toks)),
          next |-> Num(v.next.v + 1)])

BuildVocab(sts, cnts) ==
  AssignIds(CollectTokens(cnts, SetAddAll(<<>>, sts)), InitSpecials(sts))

(***************************************************************************)
(* _applyBPEToWord.                                                        *)
(***************************************************************************)
PosInfinity == [t |-> "inf", v |-> 0]

\* rank < bestRank, bestRank a rank or Infinity
RankLess(rank, best) == IF best.t = "inf" THEN TRUE ELSE rank < best.v

\* lines 198-202: the rank map; a rule met again takes the later index
RECURSIVE BuildMergeMap(_, _, _)
BuildMergeMap(ms, i, mm) ==
  IF i >= Len(ms) THEN mm
  ELSE BuildMergeMap(ms, i + 1,
                     MapSet(mm, ms[i + 1][1] \o <<Space>> \o ms[i + 1][2], i))

MergeMap(ms) == BuildMergeMap(ms, 0, <<>>)

\* Mutant: `rank <= bestRank`, the rightmost pair of the best rank wins.
RECURSIVE ScanPairsRightmost(_, _, _, _)
ScanPairsRightmost(ps, mm, i, best) ==
  IF i >= Len(ps) - 1 THEN best
  ELSE LET key == ps[i + 1] \o <<Space>> \o ps[i + 2] IN
       IF MapHas(mm, key)
          /\ (best.rank.t = "inf" \/ MapGet(mm, key) <= best.rank.v)
       THEN ScanPairsRightmost(ps, mm, i + 1,
                      [pos |-> i, rank |-> Num(MapGet(mm, key)), done |-> FALSE])
       ELSE ScanPairsRightmost(ps, mm, i + 1, best)

\* lines 211-221: positions are 0-based as in the source
RECURSIVE ScanPairs(_, _, _, _)
ScanPairs(ps, mm, i, best) ==
  IF i >= Len(ps) - 1 THEN best
  ELSE LET key == ps[i + 1] \o <<Space>> \o ps[i + 2] IN
       IF MapHas(mm, key) /\ RankLess(MapGet(mm, key), best.rank)
       THEN ScanPairs(ps, mm, i + 1,
                      [pos |-> i, rank |-> Num(MapGet(mm, key)), done |-> FALSE])
       ELSE ScanPairs(ps, mm, i + 1, best)

\* Mutant: the splice drops the right piece of the pair.
SpliceDropsRight(ps, pos) ==
  SubSeq(ps, 1, pos) \o <<ps[pos + 1]>> \o SubSeq(ps, pos + 3, Len(ps))

\* lines 224-225: pieces.splice(bestPos, 2, merged)
Splice(ps, pos) ==
  SubSeq(ps, 1, pos) \o <<ps[pos + 1] \o ps[pos + 2]>> \o SubSeq(ps, pos + 3, Len(ps))

\* lines 207-226: one pass of the while loop
BPEStep(ps, mm) ==
  LET best == ScanPairs(ps, mm, 0, [pos |-> -1, rank |-> PosInfinity, done |-> TRUE]) IN
  [pieces |-> IF ~best.done /\ best.pos >= 0 THEN Splice(ps, best.pos) ELSE ps,
   done |-> best.done, pos |-> best.pos, rank |-> best.rank]

RECURSIVE BPELoop(_, _)
BPELoop(ps, mm) ==
  LET st == BPEStep(ps, mm) IN IF st.done THEN st.pieces ELSE BPELoop(st.pieces, mm)

\* lines 192-230
ApplyBPEToWord(w, ms) ==
  LET ps == WordToChars(w) IN
  IF Len(ps) = 0 THEN <<>> ELSE BPELoop(ps, MergeMap(ms))

(***************************************************************************)
(* tokenize.                                                               *)
(***************************************************************************)
\* lines 237-246
RECURSIVE TokenizeParts(_, _)
TokenizeParts(ws, ms) ==
  IF ws = <<>> THEN <<>>
  ELSE IF IsWhitespaceRun(Head(ws)) THEN <<Head(ws)>> \o TokenizeParts(Tail(ws), ms)
  ELSE IF Len(Head(ws)) = 0 THEN TokenizeParts(Tail(ws), ms)
  ELSE ApplyBPEToWord(Head(ws), ms) \o TokenizeParts(Tail(ws), ms)

\* lines 233-248
Tokenize(text, low, ms) == TokenizeParts(SplitKeep(Normalize(text, low)), ms)

(***************************************************************************)
(* The constructor.                                                        *)
(***************************************************************************)
PAD == <<"<", "P", "A", "D", ">">>
UNK == <<"<", "U", "N", "K", ">">>
BOS == <<"<", "B", "O", "S", ">">>
EOS == <<"<", "E", "O", "S", ">">>
SEP == <<"<", "S", "E", "P", ">">>

\* line 11
DefaultSpecialTokens == <<PAD, UNK, BOS, EOS, SEP>>

NoArtifact == [written |-> FALSE]

NoCall == [op |-> "none"]

\* What the variables of a method that is not running hold.
Idle ==
  /\ minFrequency = 0 /\ mergeOps = 0 /\ iter = 0
  /\ pairCounts = <<>> /\ bestPair = Null /\ bestCount = 0
  /\ corpus = <<>>
  /\ word = <<>> /\ pieces = <<>> /\ ids = <<>> /\ out = <<>> /\ call = NoCall
  /\ disk = NoArtifact /\ saved = NoArtifact

(***************************************************************************)
(* Training, one position of trainFromText at a time, on a tokenizer       *)
(* constructed with the default options.                                   *)
(***************************************************************************)
TrainChars == {"a", "b", " "}

TrainTexts == UNION {[1..n -> TrainChars] : n \in 0..MaxTextLen}

InitTrain ==
  /\ lower = TRUE
  /\ specialTokens = DefaultSpecialTokens
  /\ tokenToId = InitSpecials(DefaultSpecialTokens).t2i
  /\ idToToken = InitSpecials(DefaultSpecialTokens).i2t
  /\ nextId = InitSpecials(DefaultSpecialTokens).next
  /\ merges = <<>>
  /\ counts = <<>>
  /\ pc = "new"
  /\ Idle

\* The distinct whitespace-delimited words of the normalized text, in the order
\* of their first occurrence.
RECURSIVE WordsOfLines(_, _)
WordsOfLines(ls, low) ==
  IF ls = <<>> THEN <<>>
  ELSE SplitWords(Normalize(Head(ls), low)) \o WordsOfLines(Tail(ls), low)

CorpusWords(text, low) == SetAddAll(<<>>, WordsOfLines(SplitLines(text), low))

\* Mutant: `iter <= mergeOps`.
LoopContinuesOneMore(i, ops) == i <= ops

\* line 94: iter < mergeOps
LoopContinues(i, ops) == i < ops

\* lines 76-94: the word counts, and the first test of the loop
TrainBegin ==
  /\ pc = "new"
  /\ \E text \in TrainTexts, minF \in 1..MaxMinFrequency, ops \in 0..MaxMergeOps :
       /\ counts' = InitialCounts(text, lower)
       /\ corpus' = CorpusWords(text, lower)
       /\ minFrequency' = minF
       /\ mergeOps' = ops
       /\ pc' = IF LoopContinues(0, ops) THEN "count" ELSE "collect"
  /\ merges' = <<>>
  /\ iter' = 0
  /\ UNCHANGED <<lower, specialTokens, tokenToId, idToToken, nextId, pairCounts,
                 bestPair, bestCount, word, pieces, disk, saved, ids, out, call>>

\* lines 95-118: the Pair Frequency Table and the selection
TrainCount ==
  /\ pc = "count"
  /\ LET sel == Selection(counts, minFrequency) IN
       /\ pairCounts' = sel.pairCounts
       /\ bestPair' = sel.bestPair
       /\ bestCount' = sel.bestCount
       /\ pc' = IF sel.stop THEN "collect" ELSE "merge"
  /\ UNCHANGED <<lower, specialTokens, tokenToId, idToToken, nextId, merges, counts,
                 minFrequency, mergeOps, iter, corpus, word, pieces,
                 disk, saved, ids, out, call>>

\* lines 120-147: the rule is appended and every piece sequence rewritten
TrainMerge ==
  /\ pc = "merge"
  /\ LET ab == SplitSp(bestPair) IN
       /\ merges' = Append(merges, <<ab[1], ab[2]>>)
       /\ counts' = ApplyMerge(counts, ab[1], ab[2], <<>>)
  /\ iter' = iter + 1
  /\ pc' = IF LoopContinues(iter + 1, mergeOps) THEN "count" ELSE "collect"
  /\ UNCHANGED <<lower, specialTokens, tokenToId, idToToken, nextId, minFrequency,
                 mergeOps, pairCounts, bestPair, bestCount, corpus, word, pieces,
                 disk, saved, ids, out, call>>

\* lines 149-166: the vocabulary
TrainEnd ==
  /\ pc = "collect"
  /\ LET v == BuildVocab(specialTokens, counts) IN
       /\ tokenToId' = v.t2i
       /\ idToToken' = v.i2t
       /\ nextId' = v.next
  /\ pc' = "trained"
  /\ UNCHANGED <<lower, specialTokens, merges, counts, minFrequency, mergeOps, iter,
                 pairCounts, bestPair, bestCount, corpus, word, pieces, disk, saved,
                 ids, out, call>>

StripMarker(s) == IF StartsWithMarker(s) THEN Tail(s) ELSE s

\* _applyBPEToWord on a word of the corpus
ApplyCorpusWord ==
  /\ pc = "trained"
  /\ \E i \in 1..Len(corpus) :
       /\ word' = corpus[i]
       /\ pieces' = ApplyBPEToWord(corpus[i], merges)
  /\ pc' = "applied"
  /\ UNCHANGED <<lower, specialTokens, tokenToId, idToToken, nextId, merges, counts,
                 minFrequency, mergeOps, iter, pairCounts, bestPair, bestCount,
                 corpus, disk, saved, ids, out, call>>

Next == TrainBegin \/ TrainCount \/ TrainMerge \/ TrainEnd \/ ApplyCorpusWord

Spec == InitTrain /\ [][Next]_vars

(***************************************************************************)
(* Properties of training.                                                 *)
(***************************************************************************)
\* The piece sequence ps spells the word w.
Spells(ps, w) == Concat(ps) = <<Marker>> \o w

HasAdjacent(ps, a, b) == \E i \in 1..(Len(ps) - 1) : ps[i] = a /\ ps[i + 1] = b

NoDuplicates(s) == \A i, j \in 1..Len(s) : s[i] = s[j] => i = j

C4_MergeMonotonicity ==
  [][/\ Len(merges') <= mergeOps'
     /\ Len(merges') = Len(merges) + 1 =>
          LET r == merges'[Len(merges')]
              key == r[1] \o <<Space>> \o r[2]
          IN MapHas(pairCounts, key) /\ MapGet(pairCounts, key) >= minFrequency]_vars

\* The last permitted merge has been appended, with a count equal to the floor.
C4_Witness ==
  /\ pc = "collect"
  /\ Len(merges) = mergeOps
  /\ mergeOps = MaxMergeOps
  /\ bestCount = minFrequency
  /\ minFrequency = MaxMinFrequency

\* The number of positions of ps at which a is followed by b.
Occurrences(ps, a, b) ==
  Cardinality({i \in 1..(Len(ps) - 1) : ps[i] = a /\ ps[i + 1] = b})

\* The aggregate frequency of the pair (a, b): over the sequences at or above
\* the floor, the frequency of the sequence for each occurrence in it.
RECURSIVE PairFrequency(_, _, _, _)
PairFrequency(cnts, minF, a, b) ==
  IF cnts = <<>> THEN 0
  ELSE (IF Head(cnts)[2] >= minF
        THEN Head(cnts)[2] * Occurrences(SplitSp(Head(cnts)[1]), a, b) ELSE 0)
       + PairFrequency(Tail(cnts), minF, a, b)

\* The pairs of the sequences at or above the floor, each with the place (sequence,
\* position) of its first occurrence in the scan.
PairPlaces(cnts, minF) ==
  {<<i, j>> \in (1..Len(cnts)) \X (1..MaxTextLen) :
     cnts[i][2] >= minF /\ j < Len(SplitSp(cnts[i][1]))}

PairAt(cnts, pl) ==
  LET ps == SplitSp(cnts[pl[1]][1]) IN <<ps[pl[2]], ps[pl[2] + 1]>>

Before(p, q) == p[1] < q[1] \/ (p[1] = q[1] /\ p[2] < q[2])

FirstPlace(cnts, minF, pr) ==
  CHOOSE pl \in PairPlaces(cnts, minF) :
    /\ PairAt(cnts, pl) = pr
    /\ \A q \in PairPlaces(cnts, minF) : PairAt(cnts, q) = pr => ~Before(q, pl)

TableCorrect(pcs, cnts, minF) ==
  /\ NoDuplicates([i \in 1..Len(pcs) |-> pcs[i][1]])
  /\ \A pl \in PairPlaces(cnts, minF) :
       MapHas(pcs, PairAt(cnts, pl)[1] \o <<Space>> \o PairAt(cnts, pl)[2])
  /\ \A i \in 1..Len(pcs) :
       LET ab == SplitSp(pcs[i][1]) IN
       /\ Len(ab) = 2
       /\ pcs[i][2] > 0
       /\ pcs[i][2] = PairFrequency(cnts, minF, ab[1], ab[2])

SelectionCorrect(cnts, minF, a, b) ==
  /\ <<a, b>> \in {PairAt(cnts, pl) : pl \in PairPlaces(cnts, minF)}
  /\ \A pl \in PairPlaces(cnts, minF) :
       LET q == PairAt(cnts, pl) IN
       /\ PairFrequency(cnts, minF, q[1], q[2]) <= PairFrequency(cnts, minF, a, b)
       /\ (PairFrequency(cnts, minF, q[1], q[2]) = PairFrequency(cnts, minF, a, b)
            /\ q # <<a, b>>)
          => Before(FirstPlace(cnts, minF, <<a, b>>), FirstPlace(cnts, minF, q))

\* C9: in every iteration the Pair Frequency Table holds, for every adjacent
\* pair of the sequences at or above the floor, its aggregate frequency; the
\* pair merged has the maximal count and is, among those with that count, the
\* first met when scanning the sequences in insertion order from left to
\* right; and the merge also rewrites the sequences below the floor.
C9_MergeSelection ==
  [][/\ pc = "count" => TableCorrect(pairCounts', counts, minFrequency)
     /\ pc = "merge" =>
          /\ Len(merges') = Len(merges) + 1
          /\ LET r == merges'[Len(merges')] IN
               /\ SelectionCorrect(counts, minFrequency, r[1], r[2])
               /\ Len(counts') = Len(counts)
               /\ \A i \in 1..Len(counts) :
                    LET old == SplitSp(counts[i][1])
                        new == SplitSp(counts'[i][1])
                    IN /\ counts'[i][2] = counts[i][2]
                       /\ Concat(new) = Concat(old)
                       /\ ~HasAdjacent(new, r[1], r[2])
                       /\ HasAdjacent(old, r[1], r[2]) => Len(new) < Len(old)]_vars

\* A rule has been selected among several pairs of maximal count, none of them
\* the first pair of the table, and merged.
C9_Witness ==
  /\ pc = "count"
  /\ Len(merges) = 1
  /\ Cardinality({i \in 1..Len(pairCounts) : pairCounts[i][2] = bestCount}) > 1
  /\ pairCounts[1][2] < bestCount
  /\ bestPair = merges[1][1] \o <<Space>> \o merges[1][2]

WordChars == {"a", "B"}

Words == UNION {[1..n -> WordChars] : n \in 0..MaxWordLen}

RuleLefts == {<<Marker, "a">>, <<"b">>, <<Marker, "a", "b">>}

RuleRights == {<<"a">>, <<"b">>}

Rules == RuleLefts \X RuleRights

MergeTables == UNION {[1..n -> Rules] : n \in 0..MaxRules}

InitApply ==
  /\ lower \in BOOLEAN
  /\ specialTokens = DefaultSpecialTokens
  /\ tokenToId = InitSpecials(DefaultSpecialTokens).t2i
  /\ idToToken = InitSpecials(DefaultSpecialTokens).i2t
  /\ nextId = InitSpecials(DefaultSpecialTokens).next
  /\ merges \in MergeTables
  /\ counts = <<>>
  /\ pc = "ready"
  /\ Idle

\* lines 234, 243 and 192-205: tokenize passes a normalized word, whose initial
\* pieces are built
ApplyBegin ==
  /\ pc = "ready"
  /\ \E t \in Words :
       LET w == Normalize(t, lower) IN
       /\ word' = w
       /\ pieces' = WordToChars(w)
       /\ pc' = IF Len(WordToChars(w)) = 0 THEN "done" ELSE "loop"
  /\ UNCHANGED <<lower, specialTokens, tokenToId, idToToken, nextId, merges, counts,
                 minFrequency, mergeOps, iter, pairCounts, bestPair, bestCount,
                 corpus, disk, saved, ids, out, call>>

\* lines 206-229: one pass of the while loop
ApplyStep ==
  /\ pc = "loop"
  /\ LET st == BPEStep(pieces, MergeMap(merges)) IN
       /\ pieces' = st.pieces
       /\ pc' = IF st.done THEN "done" ELSE "loop"
  /\ UNCHANGED <<lower, specialTokens, tokenToId, idToToken, nextId, merges, counts,
                 minFrequency, mergeOps, iter, pairCounts, bestPair, bestCount,
                 corpus, word, disk, saved, ids, out, call>>

\* lines 233-248: tokenize on a text that is one word
TokenizeWord ==
  /\ pc = "ready"
  /\ \E w \in Words :
       /\ word' = w
       /\ pieces' = Tokenize(w, lower, merges)
  /\ pc' = "tokenized"
  /\ UNCHANGED <<lower, specialTokens, tokenToId, idToToken, nextId, merges, counts,
                 minFrequency, mergeOps, iter, pairCounts, bestPair, bestCount,
                 corpus, disk, saved, ids, out, call>>

NextApply == ApplyBegin \/ ApplyStep \/ TokenizeWord

SpecApply == InitApply /\ [][NextApply]_vars

\* The priority rank of a pair: the position of its rule in the Merge Table,
\* counted from 0; the lowest one if the table holds the rule more than once.
InTable(ms, a, b) == \E k \in 1..Len(ms) : ms[k] = <<a, b>>

RankOf(ms, a, b) ==
  (CHOOSE k \in 1..Len(ms) :
     ms[k] = <<a, b>> /\ \A j \in 1..(k - 1) : ms[j] # <<a, b>>) - 1

Mergeable(ps, ms) == {i \in 1..(Len(ps) - 1) : InTable(ms, ps[i], ps[i + 1])}

\* i is the leftmost of the positions whose pair has the lowest rank.
IsPriorityPosition(ps, ms, i) ==
  /\ i \in Mergeable(ps, ms)
  /\ \A j \in Mergeable(ps, ms) :
       \/ RankOf(ms, ps[i], ps[i + 1]) < RankOf(ms, ps[j], ps[j + 1])
       \/ RankOf(ms, ps[i], ps[i + 1]) = RankOf(ms, ps[j], ps[j + 1]) /\ i <= j

MergedAt(ps, i) ==
  SubSeq(ps, 1, i - 1) \o <<ps[i] \o ps[i + 1]>> \o SubSeq(ps, i + 2, Len(ps))

PriorityStep ==
  pc = "loop" =>
    IF Mergeable(pieces, merges) = {}
    THEN pc' = "done" /\ pieces' = pieces
    ELSE /\ pc' = "loop"
         /\ \E i \in Mergeable(pieces, merges) :
              IsPriorityPosition(pieces, merges, i) /\ pieces' = MergedAt(pieces, i)

\* C5: every pass of _applyBPEToWord merges exactly one occurrence, the pair of
\* the lowest priority rank among the adjacent pairs that are in the Merge
\* Table, the leftmost one of that rank; the loop stops only when no adjacent
\* pair is in the Merge Table.
C5_PriorityRespect == [][PriorityStep]_vars

\* The same, for the Merge Tables that hold no rule twice.
C5_PriorityRespectWithoutRepeatedRule ==
  [][NoDuplicates(merges) => PriorityStep]_vars

\* C8: every pass of _applyBPEToWord leaves the concatenation of the pieces
\* unchanged, and the pieces tokenize returns for a whitespace-free word,
\* concatenated with the marker removed from the first one, are the
\* normalized word.
C8_ConcatenationPreserved ==
  /\ pc \in {"loop", "done"} /\ word # <<>> => Concat(pieces) = <<Marker>> \o word
  /\ pc = "tokenized" =>
       IF word = <<>> THEN pieces = <<>>
       ELSE /\ StartsWithMarker(pieces[1])
            /\ Concat(<<Tail(pieces[1])>> \o Tail(pieces)) = Normalize(word, lower)

\* tokenize has folded the case of a word and merged two pairs in it.
C8_Witness ==
  /\ pc = "tokenized"
  /\ lower
  /\ \E i \in 1..Len(word) : word[i] = "B"
  /\ Len(pieces) + 2 = Len(word)

(***************************************************************************)
(* trainFromText as one call.                                              *)
(***************************************************************************)
\* lines 94-147
RECURSIVE TrainLoop(_, _, _, _, _)
TrainLoop(cnts, ms, it, minF, ops) ==
  IF ~LoopContinues(it, ops) THEN [counts |-> cnts, merges |-> ms]
  ELSE LET sel == Selection(cnts, minF) IN
       IF sel.stop THEN [counts |-> cnts, merges |-> ms]
       ELSE LET ab == SplitSp(sel.bestPair) IN
            TrainLoop(ApplyMerge(cnts, ab[1], ab[2], <<>>),
                      Append(ms, <<ab[1], ab[2]>>), it + 1, minF, ops)

\* lines 76-166
TrainFromText(text, minF, ops, low, sts) ==
  LET r == TrainLoop(InitialCounts(text, low), <<>>, 0, minF, ops)
      v == BuildVocab(sts, r.counts)
  IN [counts |-> r.counts, merges |-> r.merges,
      tokenToId |-> v.t2i, idToToken |-> v.i2t, nextId |-> v.next]

(***************************************************************************)
(* JavaScript and JSON values.                                             *)
(***************************************************************************)
JsonNull == [t |-> "null", v |-> 0]

\* a string that spells the number v, such as "7"
NumericString(n) == [t |-> "numstr", v |-> n]

\* a string that spells no number, such as "x"
OtherString == [t |-> "str", v |-> 0]

\* Number(v)
ToNumber(x) ==
  CASE x.t = "num" -> x
    [] x.t = "numstr" -> Num(x.v)
    [] x.t = "null" -> Num(0)
    [] x.t = "ninf" -> x
    [] OTHER -> NaN

\* what JSON.stringify followed by JSON.parse makes of a value
JsonRoundTrip(x) == IF x.t \in {"nan", "ninf"} THEN JsonNull ELSE x

\* v ?? fallback
Nullish(x) == x.t \in {"undefined", "null"}

\* Map.prototype.get
MapLookup(m, k) == IF MapHas(m, k) THEN MapGet(m, k) ELSE Undefined

Digits == <<"0", "1", "2", "3", "4", "5", "6", "7", "8", "9">>

DigitValue(c) == (CHOOSE i \in 1..10 : Digits[i] = c) - 1

IsDigit(c) == \E i \in 1..10 : Digits[i] = c

\* String(n) for n >= 0
RECURSIVE DecimalString(_)
DecimalString(n) ==
  IF n < 10 THEN <<Digits[n + 1]>>
  ELSE Append(DecimalString(n \div 10), Digits[(n % 10) + 1])

\* the keys an object lists first, in ascending order: canonical array indices
IsIndexKey(k) ==
  /\ Len(k) > 0
  /\ \A i \in 1..Len(k) : IsDigit(k[i])
  /\ Len(k) > 1 => k[1] # "0"

RECURSIVE IndexValue(_)
IndexValue(k) ==
  IF k = <<>> THEN 0 ELSE 10 * IndexValue(SubSeq(k, 1, Len(k) - 1)) + DigitValue(k[Len(k)])

(***************************************************************************)
(* encode and decode.                                                      *)
(***************************************************************************)
SpaceToken == <<"<", "S", "P", "A", "C", "E", ">">>

\* lines 256-266
RECURSIVE EncodePieces(_, _, _)
EncodePieces(ps, keepSpaces, t2i) ==
  IF ps = <<>> THEN <<>>
  ELSE LET p == Head(ps)
           key == IF IsWhitespaceRun(p) THEN SpaceToken \o DecimalString(Len(p)) ELSE p
           id == MapLookup(t2i, key)
       IN (IF IsWhitespaceRun(p) /\ ~keepSpaces THEN <<>>
           ELSE <<IF Nullish(id) THEN MapLookup(t2i, UNK) ELSE id>>)
          \o EncodePieces(Tail(ps), keepSpaces, t2i)

\* lines 251-270
Encode(text, addBosEos, keepSpaces, t2i, low, ms) ==
  (IF addBosEos THEN <<MapLookup(t2i, BOS)>> ELSE <<>>)
  \o EncodePieces(Tokenize(text, low, ms), keepSpaces, t2i)
  \o (IF addBosEos THEN <<MapLookup(t2i, EOS)>> ELSE <<>>)

\* lines 274-280
RECURSIVE DecodeParts(_, _, _, _)
DecodeParts(is, skipSpecials, i2t, sts) ==
  IF is = <<>> THEN <<>>
  ELSE LET id == ToNumber(Head(is))
           tok == IF MapHas(i2t, id) THEN MapGet(i2t, id) ELSE UNK
       IN (IF skipSpecials /\ \E k \in 1..Len(sts) : sts[k] = tok THEN <<>> ELSE <<tok>>)
          \o DecodeParts(Tail(is), skipSpecials, i2t, sts)

\* lines 283-292
RECURSIVE JoinParts(_)
JoinParts(ps) ==
  IF ps = <<>> THEN <<>>
  ELSE (IF StartsWithMarker(Head(ps)) THEN Tail(Head(ps)) ELSE Head(ps))
       \o JoinParts(Tail(ps))

\* lines 273-293
Decode(is, skipSpecials, i2t, sts) == JoinParts(DecodeParts(is, skipSpecials, i2t, sts))

(***************************************************************************)
(* save and load.                                                          *)
(***************************************************************************)
\* The entries whose key is an array index, in ascending order of the index.
RECURSIVE SortedIndexEntries(_)
SortedIndexEntries(es) ==
  IF es = {} THEN <<>>
  ELSE LET e == CHOOSE e \in es :
                  \A f \in es : IndexValue(e[1]) <= IndexValue(f[1])
       IN <<e>> \o SortedIndexEntries(es \ {e})

RECURSIVE SelectEntries(_, _)
SelectEntries(m, index) ==
  IF m = <<>> THEN <<>>
  ELSE (IF IsIndexKey(Head(m)[1]) = index THEN <<Head(m)>> ELSE <<>>)
       \o SelectEntries(Tail(m), index)

\* line 172: Object.fromEntries(map), as Object.entries lists it
ObjectFromEntries(m) ==
  SortedIndexEntries({m[i] : i \in {j \in 1..Len(m) : IsIndexKey(m[j][1])}})
  \o SelectEntries(m, FALSE)

\* lines 169-176, and JSON.parse of what was written (line 180)
SaveArtifact(low, sts, t2i, ms) ==
  LET obj == ObjectFromEntries(t2i) IN
  [written |-> TRUE, lower |-> low, specialTokens |-> sts,
   vocab |-> [i \in 1..Len(obj) |-> <<obj[i][1], JsonRoundTrip(obj[i][2])>>],
   merges |-> ms]

\* line 186: new Map(entries.map(([t, id]) => [Number(id), t]))
RECURSIVE IdToTokenOf(_, _)
IdToTokenOf(es, m) ==
  IF es = <<>> THEN m
  ELSE IdToTokenOf(Tail(es), MapSet(m, ToNumber(Head(es)[2]), Head(es)[1]))

\* line 187: Math.max(...keys) + 1
MaxPlusOne(i2t) ==
  IF Len(i2t) = 0 THEN NegInfinity
  ELSE IF \E i \in 1..Len(i2t) : i2t[i][1].t = "nan" THEN NaN
  ELSE Num((CHOOSE n \in {i2t[i][1].v : i \in 1..Len(i2t)} :
              \A i \in 1..Len(i2t) : i2t[i][1].v <= n) + 1)

\* load, had it left idToToken as _initSpecials (line 183) made it
LoadArtifactKeepsSpecialIds(art) ==
  LET t2i == ObjectFromEntries(art.vocab)
      i2t == InitSpecials(art.specialTokens).i2t
  IN [lower |-> art.lower, specialTokens |-> art.specialTokens,
      tokenToId |-> t2i, idToToken |-> i2t, nextId |-> MaxPlusOne(i2t),
      merges |-> art.merges]

\* lines 178-189
LoadArtifact(art) ==
  LET t2i == ObjectFromEntries(art.vocab)
      i2t == IdToTokenOf(t2i, <<>>)
  IN [lower |-> art.lower, specialTokens |-> art.specialTokens,
      tokenToId |-> t2i, idToToken |-> i2t, nextId |-> MaxPlusOne(i2t),
      merges |-> art.merges]

(***************************************************************************)
(* The life of a tokenizer: constructed with options, trained, saved,      *)
(* loaded and queried, every method as one step.                           *)
(***************************************************************************)
VocabChars == {"a", "B", "1", " ", "\n"}

VocabTexts == UNION {[1..n -> VocabChars] : n \in 0..MaxVocabTextLen}

QueryChars == {"a", "B", " "}

QueryTexts == UNION {[1..n -> QueryChars] : n \in 0..MaxQueryLen}

\* The special-token lists the constructor is given: the default, none, and
\* one that names a token twice.
SpecialTokenLists == {DefaultSpecialTokens, <<>>, <<PAD, UNK, PAD>>}

\* lines 8-40, without an initial vocabulary or Merge Table
InitVocab ==
  /\ lower \in BOOLEAN
  /\ specialTokens \in SpecialTokenLists
  /\ tokenToId = InitSpecials(specialTokens).t2i
  /\ idToToken = InitSpecials(specialTokens).i2t
  /\ nextId = InitSpecials(specialTokens).next
  /\ merges = <<>>
  /\ counts = <<>>
  /\ pc = "new"
  /\ Idle

\* trainFromText has been called on the tokenizer, or on the one whose artifact
\* it loaded.
IsTrained == pc = "trained" \/ (pc = "loaded" /\ saved.trained)

\* lines 76-166
Train ==
  /\ call = NoCall
  /\ pc = "new"
  /\ \E text \in VocabTexts, minF \in 1..MaxMinFrequency, ops \in 0..MaxMergeOps :
       LET r == TrainFromText(text, minF, ops, lower, specialTokens) IN
       /\ counts' = r.counts
       /\ merges' = r.merges
       /\ tokenToId' = r.tokenToId
       /\ idToToken' = r.idToToken
       /\ nextId' = r.nextId
       /\ corpus' = CorpusWords(text, lower)
  /\ pc' = "trained"
  /\ UNCHANGED <<lower, specialTokens, minFrequency, mergeOps, iter, pairCounts,
                 bestPair, bestCount, word, pieces, disk, saved, ids, out, call>>

\* lines 169-176
Save ==
  /\ call = NoCall
  /\ disk' = SaveArtifact(lower, specialTokens, tokenToId, merges)
  /\ saved' = [written |-> TRUE, lower |-> lower, specialTokens |-> specialTokens,
                tokenToId |-> tokenToId, idToToken |-> idToToken, nextId |-> nextId,
                merges |-> merges, trained |-> IsTrained, corpus |-> corpus]
  /\ UNCHANGED <<lower, specialTokens, tokenToId, idToToken, nextId, merges, counts,
                 pc, minFrequency, mergeOps, iter, pairCounts, bestPair, bestCount,
                 corpus, word, pieces, ids, out, call>>

\* lines 178-189: load(path) leaves this.counts as it finds it
LoadInto(cnts) ==
  /\ call = NoCall
  /\ disk.written
  /\ LET r == LoadArtifact(disk) IN
       /\ lower' = r.lower
       /\ specialTokens' = r.specialTokens
       /\ tokenToId' = r.tokenToId
       /\ idToToken' = r.idToToken
       /\ nextId' = r.nextId
       /\ merges' = r.merges
  /\ counts' = cnts
  /\ corpus' = IF saved.written THEN saved.corpus ELSE <<>>
  /\ pc' = "loaded"
  /\ UNCHANGED <<minFrequency, mergeOps, iter, pairCounts, bestPair,
                 bestCount, word, pieces, disk, saved, ids, out, call>>

\* the tokenizer that wrote the artifact, or was trained since, loads it
Load == LoadInto(counts)

\* cli.js lines 60-61, 70-71, 79-80, 87-88: a new tokenizer loads the artifact
LoadNew == LoadInto(<<>>)

\* lines 251-270
EncodeText ==
  /\ call = NoCall
  /\ \E text \in QueryTexts, addBosEos \in BOOLEAN, keepSpaces \in BOOLEAN :
       /\ word' = text
       /\ ids' = Encode(text, addBosEos, keepSpaces, tokenToId, lower, merges)
       /\ call' = [op |-> "encode", addBosEos |-> addBosEos,
                    keepSpaces |-> keepSpaces, skipSpecials |-> TRUE]
  /\ UNCHANGED <<lower, specialTokens, tokenToId, idToToken, nextId, merges, counts,
                 pc, minFrequency, mergeOps, iter, pairCounts, bestPair, bestCount,
                 corpus, pieces, disk, saved, out>>

\* lines 273-293: decode of what encode returned
DecodeIds ==
  /\ call.op = "encode"
  /\ \E skipSpecials \in BOOLEAN :
       /\ out' = Decode(ids, skipSpecials, idToToken, specialTokens)
       /\ call' = [call EXCEPT !.op = "decode", !.skipSpecials = skipSpecials]
  /\ UNCHANGED <<lower, specialTokens, tokenToId, idToToken, nextId, merges, counts,
                 pc, minFrequency, mergeOps, iter, pairCounts, bestPair, bestCount,
                 corpus, word, pieces, disk, saved, ids>>

NextVocab == Train \/ Save \/ Load \/ LoadNew

SpecVocab == InitVocab /\ [][NextVocab]_vars

NextQuery == Train \/ EncodeText \/ DecodeIds

SpecQuery == InitVocab /\ [][NextQuery]_vars

(***************************************************************************)
(* Encode/decode stability.                                                *)
(***************************************************************************)
CharsOf(t) == {t[i] : i \in 1..Len(t)}

CorpusChars == UNION {CharsOf(corpus[i]) : i \in 1..Len(corpus)}

NoLongWhitespaceRun(t) ==
  \A i \in 1..(Len(t) - 1) : ~(t[i] \in Whitespace /\ t[i + 1] \in Whitespace)

\* decode(encode(text, {addBosEos: false})) has returned, on a trained
\* tokenizer with the default special tokens, for a text without a whitespace
\* run longer than one character and made of characters of the corpus
StabilityCase ==
  /\ pc = "trained"
  /\ specialTokens = DefaultSpecialTokens
  /\ call.op = "decode"
  /\ ~call.addBosEos /\ call.keepSpaces /\ call.skipSpecials
  /\ NoLongWhitespaceRun(word)
  /\ (CharsOf(Normalize(word, lower)) \ Whitespace) \subseteq CorpusChars

\* C2: for a trained tokenizer and a text without a whitespace run longer than
\* one character, made of characters of the training corpus,
\* decode(encode(text, {addBosEos: false})) is the words of the normalized text
\* concatenated in order.
C2_EncodeDecodeStability ==
  StabilityCase => out = Concat(SplitWords(Normalize(word, lower)))

(***************************************************************************)
(* The vocabulary invariant.                                               *)
(***************************************************************************)
IsSpecial(tok) == \E k \in 1..Len(specialTokens) : specialTokens[k] = tok

SpecialsFirst ==
  \A k \in 1..Len(specialTokens) :
    /\ MapLookup(tokenToId, specialTokens[k]) = Num(k - 1)
    /\ MapLookup(idToToken, Num(k - 1)) = specialTokens[k]

OthersAfter ==
  \A i \in 1..Len(tokenToId) :
    ~IsSpecial(tokenToId[i][1]) =>
      /\ tokenToId[i][2].t = "num"
      /\ tokenToId[i][2].v >= Len(specialTokens)
      /\ \A j \in 1..Len(tokenToId) : tokenToId[j][2] = tokenToId[i][2] => j = i

ExactInverses ==
  /\ \A i \in 1..Len(tokenToId) :
       MapLookup(idToToken, tokenToId[i][2]) = tokenToId[i][1]
  /\ \A i \in 1..Len(idToToken) :
       MapLookup(tokenToId, idToToken[i][2]) = idToToken[i][1]

NextIdIsCount == nextId = Num(Len(tokenToId))

\* C3: whatever trainFromText, save and load calls were made on a tokenizer
\* with distinct special tokens, the special tokens hold ids 0..n-1 in order,
\* every other token a unique id >= n, the two maps are inverses and nextId is
\* the number of tokens.
C3_VocabularyInvariant ==
  NoDuplicates(specialTokens) =>
    SpecialsFirst /\ OthersAfter /\ ExactInverses /\ NextIdIsCount

\* What does hold of the vocabulary: everything but nextId, and nextId too
\* unless an empty vocabulary was loaded.
VocabularyInvariantButEmptyLoad ==
  NoDuplicates(specialTokens) =>
    /\ SpecialsFirst /\ OthersAfter /\ ExactInverses
    /\ NextIdIsCount \/ (pc = "loaded" /\ tokenToId = <<>> /\ nextId = NegInfinity)

(***************************************************************************)
(* The round trip through the artifact.                                    *)
(***************************************************************************)
AsSet(m) == {m[i] : i \in 1..Len(m)}

QueryIdLists ==
  UNION {[1..n -> {Num(i) : i \in 0..MaxQueryId}] : n \in 0..MaxQueryLen}

SameMappings ==
  /\ AsSet(tokenToId) = AsSet(saved.tokenToId)
  /\ Len(tokenToId) = Len(saved.tokenToId)
  /\ AsSet(idToToken) = AsSet(saved.idToToken)
  /\ Len(idToToken) = Len(saved.idToToken)
  /\ merges = saved.merges
  /\ lower = saved.lower
  /\ specialTokens = saved.specialTokens

SameBehaviour ==
  /\ \A text \in QueryTexts :
       /\ Tokenize(text, lower, merges) = Tokenize(text, saved.lower, saved.merges)
       /\ \A addBosEos \in BOOLEAN, keepSpaces \in BOOLEAN :
            Encode(text, addBosEos, keepSpaces, tokenToId, lower, merges)
              = Encode(text, addBosEos, keepSpaces, saved.tokenToId, saved.lower,
                       saved.merges)
  /\ \A is \in QueryIdLists, skipSpecials \in BOOLEAN :
       Decode(is, skipSpecials, idToToken, specialTokens)
         = Decode(is, skipSpecials, saved.idToToken, saved.specialTokens)

\* a tokenizer has loaded the artifact a trained tokenizer saved
RoundTripCase == pc = "loaded" /\ saved.written /\ saved.trained

\* C6, as stated: a tokenizer that loads the artifact of any trained tokenizer
\* has its mappings, Merge Table, case-folding flag and special tokens, and
\* encode, decode and tokenize return what they return on it.
C6_RoundTripOfAnyTokenizer ==
  RoundTripCase => SameMappings /\ SameBehaviour

\* C6, for trained tokenizers whose special tokens are distinct: a tokenizer
\* that loads the artifact has the same mappings, Merge Table, case-folding flag
\* and special tokens, and encode, decode and tokenize return the same results.
C6_RoundTrip ==
  (RoundTripCase /\ NoDuplicates(saved.specialTokens))
    => SameMappings /\ SameBehaviour

\* The artifact of a tokenizer with a merge rule was loaded, and lists the
\* vocabulary in another order than the tokenizer held it.
C6_Witness ==
  /\ RoundTripCase
  /\ NoDuplicates(saved.specialTokens)
  /\ Len(saved.merges) > 0
  /\ Len(saved.tokenToId) > Len(saved.specialTokens)
  /\ tokenToId # saved.tokenToId

(***************************************************************************)
(* Artifacts that no save wrote: the vocabulary of the file gives some     *)
(* tokens ids that are numbers, strings of digits or other strings.        *)
(***************************************************************************)
ArtifactTokens == {<<Marker, "a">>, <<"b">>, <<"1">>}

ArtifactIds == {Num(5), Num(6), NumericString(7), OtherString}

\* the entries of an object, each key once
VocabObjects ==
  {v \in UNION {[1..n -> ArtifactTokens \X ArtifactIds] : n \in 0..MaxArtifactEntries} :
     \A i, j \in 1..Len(v) : v[i][1] = v[j][1] => i = j}

Artifacts ==
  {[written |-> TRUE, lower |-> TRUE, specialTokens |-> DefaultSpecialTokens,
    vocab |-> v, merges |-> <<>>] : v \in VocabObjects}

\* lines 33-39
RECURSIVE VocabOption(_, _)
VocabOption(es, maps) ==
  IF es = <<>> THEN maps
  ELSE LET tok == Head(es)[1]
           n == ToNumber(Head(es)[2])
       IN VocabOption(Tail(es),
            IF n = NaN THEN maps
            ELSE [maps EXCEPT !.t2i = MapSet(maps.t2i, tok, n),
                              !.i2t = MapSet(maps.i2t, n, tok)])

\* lines 8-40: new BPE_Tokenizer(), and a file to load
InitLoad ==
  /\ lower = TRUE
  /\ specialTokens = DefaultSpecialTokens
  /\ tokenToId = InitSpecials(specialTokens).t2i
  /\ idToToken = InitSpecials(specialTokens).i2t
  /\ nextId = InitSpecials(specialTokens).next
  /\ merges = <<>>
  /\ counts = <<>>
  /\ pc = "new"
  /\ corpus = <<>>
  /\ minFrequency = 0 /\ mergeOps = 0 /\ iter = 0
  /\ pairCounts = <<>> /\ bestPair = Null /\ bestCount = 0
  /\ word = <<>> /\ pieces = <<>>
  /\ saved = NoArtifact
  /\ ids = <<>> /\ out = <<>> /\ call = NoCall
  /\ disk \in Artifacts

\* lines 8-40: new BPE_Tokenizer({lower, specialTokens, merges, vocab}) with
\* the parsed content of the file
NewFromVocab ==
  /\ call = NoCall
  /\ disk.written
  /\ LET r == VocabOption(ObjectFromEntries(disk.vocab),
                          InitSpecials(disk.specialTokens))
     IN /\ tokenToId' = r.t2i
        /\ idToToken' = r.i2t
        /\ nextId' = r.next
  /\ lower' = disk.lower
  /\ specialTokens' = disk.specialTokens
  /\ merges' = disk.merges
  /\ counts' = <<>>
  /\ corpus' = <<>>
  /\ pc' = "constructed"
  /\ UNCHANGED <<minFrequency, mergeOps, iter, pairCounts, bestPair, bestCount,
                 word, pieces, disk, saved, ids, out, call>>

NextLoad == Load \/ LoadNew \/ NewFromVocab

SpecLoad == InitLoad /\ [][NextLoad]_vars

Malformed(id) == ToNumber(id) = NaN

HasMalformedEntry(v) == \E i \in 1..Len(v) : Malformed(v[i][2])

\* the entries with a malformed id were skipped and the others were taken
SkipsMalformedIds(v) ==
  /\ \A i \in 1..Len(v) :
       IF Malformed(v[i][2])
         THEN ~MapHas(tokenToId, v[i][1])
         ELSE /\ MapHas(tokenToId, v[i][1])
              /\ ToNumber(MapGet(tokenToId, v[i][1])) = ToNumber(v[i][2])
              /\ MapHas(idToToken, ToNumber(v[i][2]))
  /\ ~MapHas(idToToken, NaN)

\* C7: after the load of an artifact whose vocab has an entry with a
\* non-numeric id, that entry is in neither map, the well-formed entries are
\* loaded and nextId is a number.
C7_LoadSkipsMalformedIds ==
  (pc = "loaded" /\ HasMalformedEntry(disk.vocab))
    => SkipsMalformedIds(disk.vocab) /\ nextId.t = "num"

\* What the constructor does with such a vocabulary (lines 33-39).
ConstructorSkipsMalformedIds ==
  (pc = "constructed" /\ HasMalformedEntry(disk.vocab))
    => SkipsMalformedIds(disk.vocab) /\ nextId.t = "num"

====
